---- MODULE Spec2Model ----
(***************************************************************************)
(* Model of the IR tools of nature-remo-fan-control:                       *)
(*   checksum_search.py      checksum_candidates, _xor, main               *)
(*   analyze_ir_dump.py      estimate_unit_us, decode_bits_aeha,           *)
(*                           bits_to_bytes_lsb_first, hamming_distance     *)
(*   send_bruteforce_cmd.py  encode_aeha_bytes_to_us, main                 *)
(* The analysis functions and the encoder are pure.  Each specification    *)
(* below draws the inputs of one tool from a bounded set in its initial    *)
(* states and applies the tool in its actions; the send loop posts one     *)
(* frame per step, with every outcome of the POST.                         *)
(*                                                                         *)
(* Conventions.                                                            *)
(*  - A Python list is a sequence; Python index i is TLA+ index i + 1.     *)
(*    An 8-byte frame b is a sequence of 8 bytes, b[i] in Python being     *)
(*    At(b, i) here.                                                       *)
(*  - x & 0xFF on a Python int (of any sign) is x % 256; ~x is -x - 1.     *)
(*  - A bit string is a sequence of the characters "0" and "1".            *)
(*  - A time unit is a float that is always a multiple of 0.5 (an int, a   *)
(*    mean of two ints, or 425.0); it is held doubled, unit2 = 2 * unit,   *)
(*    so that all arithmetic stays in the integers.                        *)
(***************************************************************************)
EXTENDS Integers, Sequences, FiniteSets

VARIABLES
    pc,        \* the tool about to run ("search", "pair", "estimate", "decode",
               \* "measure", "leader", "encode", "send"; "decoded" for the
               \* packer alone), then its position
    samples,   \* checksum search: the list of 8-byte samples
    cands,     \* checksum search: the list checksum_candidates returned
    err,       \* the exception that ended the call, or "none"
    rc,        \* checksum search: main's return code, -1 while running
    sub,       \* checksum search: a second sample list drawn from samples
    subCands,  \* checksum search: the list returned for sub
    subErr,    \* checksum search: the exception raised for sub, or "none"
    data,      \* decoding: the raw capture, a list of signed durations
    unit2,     \* decoding: twice the time unit unit_us
    bits,      \* decoding: the bit string decoded or to be packed
    bytesOut,  \* decoding: the byte list packed from bits
    ha,        \* distance: the first bit string
    hb,        \* distance: the second bit string
    dist,      \* distance: hamming_distance(ha, hb), -1 before the call
    distRev,   \* distance: hamming_distance(hb, ha), -1 before the call
    bytesBase, \* packing: the byte list packed from the whole chunks of bits
    data2,     \* decoding: a second capture with the same space entries
    bits2,     \* decoding: the bit string decoded from data2
    txBytes,   \* sending: the byte list given to the encoder
    args,      \* sending: main's arguments (ip given or not, start, end)
    xx,        \* sending: the loop variable, -1 outside the loop
    posts,     \* sending: the frames of the POSTs attempted so far, in order
    last,      \* sending: how the latest POST ended, "none" before the first
    payload    \* sending: the "data" field of the latest payload

searchVars == <<samples, cands, err, rc, sub, subCands, subErr>>
irVars == <<data, unit2, bits, bytesOut, ha, hb, dist, distRev>>
secondVars == <<bytesBase, data2, bits2, txBytes>>
sendVars == <<args, xx, posts, last, payload>>
vars == <<pc, searchVars, irVars, secondVars, sendVars>>

\* the state of the tools a specification does not run
SearchIdle ==
    /\ samples = <<>> /\ cands = <<>> /\ err = "none" /\ rc = -1
    /\ sub = <<>> /\ subCands = <<>> /\ subErr = "none"

DistanceIdle == ha = <<>> /\ hb = <<>> /\ dist = -1 /\ distRev = -1

IrIdle ==
    /\ data = <<>> /\ unit2 = 0 /\ bits = <<>> /\ bytesOut = <<>>
    /\ DistanceIdle

SecondIdle ==
    bytesBase = <<>> /\ data2 = <<>> /\ bits2 = <<>> /\ txBytes = <<>>

NoArgs == [ip |-> FALSE, start |-> 0, end |-> -1, sleep |-> 0]

SendIdle ==
    /\ args = NoArgs /\ xx = -1 /\ posts = <<>> /\ last = "none"
    /\ payload = <<>>

----------------------------------------------------------------------------
(* Python helpers *)

\* b[i] for a Python list b and index i >= 0
At(b, i) == b[i + 1]

\* x & 0xFF
Mask8(x) == x % 256

\* ~x
Invert(x) == (-x) - 1

\* all lists of at most n elements of F
ListsOver(F, n) == UNION { [1 .. m -> F] : m \in 0 .. n }

\* the elements of list s
Range(s) == { s[i] : i \in 1 .. Len(s) }

\* (x >> i) & 1
BitAt(x, i) == (x \div (2 ^ i)) % 2

\* a ^ b on non-negative ints below 2^8
XorInt(a, b) ==
    LET bit(i) == (BitAt(a, i) + BitAt(b, i)) % 2
    IN  bit(0) + 2 * bit(1) + 4 * bit(2) + 8 * bit(3)
        + 16 * bit(4) + 32 * bit(5) + 64 * bit(6) + 128 * bit(7)

----------------------------------------------------------------------------
(* checksum_search.py: checksum_candidates *)

\* idxs = list(range(7))
idxs == <<0, 1, 2, 3, 4, 5, 6>>

\* [i for i in idxs if (mask >> i) & 1]
SubsetOfMask(mask) == SelectSeq(idxs, LAMBDA i : BitAt(mask, i) = 1)

\* subsets: one index list per mask in range(1, 1 << 7), in ascending mask order
subsets == [mask \in 1 .. 127 |-> SubsetOfMask(mask)]

\* sum(b[i] for i in S)
RECURSIVE SumFrom(_, _, _)
SumFrom(b, S, j) ==
    IF j > Len(S) THEN 0 ELSE At(b, S[j]) + SumFrom(b, S, j + 1)

SumOver(b, S) == SumFrom(b, S, 1)

\* mutant of _xor: the fold adds instead of xoring
XorAsSum(arr) == Mask8(SumFrom(arr, [j \in 1 .. Len(arr) |-> j - 1], 1))

\* _xor(arr): v = 0; for x in arr: v ^= x; return v & 0xFF
RECURSIVE XorFold(_, _, _)
XorFold(v, arr, j) ==
    IF j > Len(arr) THEN v ELSE XorFold(XorInt(v, arr[j]), arr, j + 1)

_xor(arr) ==
    Mask8(XorFold(0, arr, 1))

\* [b[i] for i in S]
Pick(b, S) == [j \in 1 .. Len(S) |-> At(b, S[j])]

\* A candidate formula.  The code holds it as a closure plus the string it
\* appends; the string names the family, S and (linear family) k and c.
\* Fixed families carry k = 0 and c = 0.
Formula(fam, S, k, c) == [fam |-> fam, S |-> S, k |-> k, c |-> c]

\* mutant of Apply: the complemented sum is computed as the negated sum
ApplyNegForOnes(f, b) ==
    CASE f.fam = "sum"      -> Mask8(SumOver(b, f.S))
      [] f.fam = "neg_sum"  -> Mask8(-SumOver(b, f.S))
      [] f.fam = "ones_sum" -> Mask8(-SumOver(b, f.S))
      [] f.fam = "xor"      -> _xor(Pick(b, f.S))
      [] f.fam = "nxor"     -> Mask8(Invert(_xor(Pick(b, f.S))))
      [] f.fam = "lin"      -> Mask8(SumOver(b, f.S) + f.k * At(b, 6) + f.c)

\* fn(b) for the closure of formula f
Apply(f, b) ==
    CASE f.fam = "sum"      -> Mask8(SumOver(b, f.S))
      [] f.fam = "neg_sum"  -> Mask8(-SumOver(b, f.S))
      [] f.fam = "ones_sum" -> Mask8(Invert(SumOver(b, f.S)))
      [] f.fam = "xor"      -> _xor(Pick(b, f.S))
      [] f.fam = "nxor"     -> Mask8(Invert(_xor(Pick(b, f.S))))
      [] f.fam = "lin"      -> Mask8(SumOver(b, f.S) + f.k * At(b, 6) + f.c)

\* ok_all(fn): every sample b has (fn(b) & 0xFF) == b[7], scanning in order
RECURSIVE ok_from(_, _, _)
ok_from(f, ss, n) ==
    IF n > Len(ss) THEN TRUE
    ELSE IF Mask8(Apply(f, ss[n])) # At(ss[n], 7) THEN FALSE
    ELSE ok_from(f, ss, n + 1)

\* mutant of ok_all: only the first sample is compared
ok_first(f, ss) ==
    ss = <<>> \/ Mask8(Apply(f, ss[1])) = At(ss[1], 7)

ok_all(f, ss) ==
    ok_from(f, ss, 1)

\* the formulas the first loop tries, in order: per S sum, neg_sum, ones_sum
SumTries ==
    [j \in 1 .. 3 * 127 |->
        Formula(<<"sum", "neg_sum", "ones_sum">>[((j - 1) % 3) + 1],
                subsets[((j - 1) \div 3) + 1], 0, 0)]

\* the formulas the second loop tries, in order: per S xor, nxor
XorTries ==
    [j \in 1 .. 2 * 127 |->
        Formula(<<"xor", "nxor">>[((j - 1) % 2) + 1],
                subsets[((j - 1) \div 2) + 1], 0, 0)]

\* mutant of DeriveC: the command term k * b0[6] is left out of base0
DeriveCNoCmd(b0, S, k) ==
    Mask8(At(b0, 7) - Mask8(SumOver(b0, S)))

\* c derived from the first sample b0 for (S, k)
DeriveC(b0, S, k) ==
    LET base0 == Mask8(SumOver(b0, S) + k * At(b0, 6))
    IN  Mask8(At(b0, 7) - base0)

\* the formulas the third loop tries, in order: per S, per k in range(0, 16)
LinTries(b0) ==
    [j \in 1 .. 16 * 127 |->
        LET S == subsets[((j - 1) \div 16) + 1]
            k == (j - 1) % 16
        IN  Formula("lin", S, k, DeriveC(b0, S, k))]

\* checksum_candidates(samples): the list returned, or the exception raised.
\* With no sample the first two loops run (ok_all is vacuously true) and
\* samples[0] in the third raises IndexError, so nothing is returned.
checksum_candidates(ss) ==
    LET fixed == SelectSeq(SumTries, LAMBDA f : ok_all(f, ss))
                 \o SelectSeq(XorTries, LAMBDA f : ok_all(f, ss))
    IN  IF ss = <<>>
        THEN [raised |-> "IndexError", value |-> <<>>]
        ELSE [raised |-> "none",
              value  |-> fixed \o SelectSeq(LinTries(ss[1]),
                                            LAMBDA f : ok_all(f, ss))]

----------------------------------------------------------------------------
(* Inputs of the checksum search *)

\* longest sample list drawn for a single search
MaxSamples == 2

\* longest sample list drawn when two searches are compared
MaxPair == 2

\* header bytes of the observed frames (send_bruteforce_cmd.py)
Header == <<35, 203, 22, 68, 128, 137>>

\* 8-byte frames: two whose byte 7 is the xor of bytes 0-6 (commands 2 and
\* 4), two whose byte 7 is sum(bytes 0-6) + 3 * byte 6 + 1 (commands 2 and
\* 3), an all-zero frame and a zero payload with checksum 255
FrameXorA == Header \o <<2, 177>>
FrameXorB == Header \o <<4, 183>>
FrameLinA == Header \o <<2, 90>>
FrameLinB == Header \o <<3, 94>>
FrameZero == <<0, 0, 0, 0, 0, 0, 0, 0>>
FrameOnes == <<0, 0, 0, 0, 0, 0, 0, 255>>

Frames ==
    {FrameXorA, FrameXorB, FrameLinA, FrameLinB, FrameZero, FrameOnes}

PairFrames == {FrameXorA, FrameXorB, FrameLinA}

\* t holds no frame more often than s does
SubBag(t, s) ==
    \A x \in Range(t) :
        Cardinality({i \in 1 .. Len(t) : t[i] = x})
            <= Cardinality({i \in 1 .. Len(s) : s[i] = x})

\* the lists, in any order, of frames taken from s
SubLists(s) == { t \in ListsOver(Range(s), Len(s)) : SubBag(t, s) }

----------------------------------------------------------------------------
(* Specification of the checksum search: one run per drawn sample list,   *)
(* either a direct call of checksum_candidates or main's guarded call     *)

InitSearch ==
    /\ pc = "search"
    /\ samples \in ListsOver(Frames, MaxSamples)
    /\ cands = <<>>
    /\ err = "none"
    /\ rc = -1
    /\ sub = <<>>
    /\ subCands = <<>>
    /\ subErr = "none"
    /\ IrIdle
    /\ SecondIdle /\ SendIdle

\* cands = checksum_candidates(samples)
Call ==
    /\ pc = "search"
    /\ LET r == checksum_candidates(samples)
       IN  /\ err' = r.raised
           /\ cands' = r.value
           /\ pc' = IF r.raised = "none" THEN "returned" ELSE "raised"
    /\ UNCHANGED <<samples, rc, sub, subCands, subErr, irVars>>
    /\ UNCHANGED <<secondVars, sendVars>>

\* main, from the aggregated samples on: return 1 when there is none,
\* otherwise search, print and return 0
Main ==
    /\ pc = "search"
    /\ IF samples = <<>>
       THEN /\ rc' = 1
            /\ pc' = "exit"
            /\ UNCHANGED <<cands, err>>
       ELSE LET r == checksum_candidates(samples)
            IN  /\ err' = r.raised
                /\ cands' = r.value
                /\ rc' = IF r.raised = "none" THEN 0 ELSE rc
                /\ pc' = IF r.raised = "none" THEN "exit" ELSE "raised"
    /\ UNCHANGED <<samples, sub, subCands, subErr, irVars>>
    /\ UNCHANGED <<secondVars, sendVars>>

NextSearch == Call \/ Main

SpecSearch == InitSearch /\ [][NextSearch]_vars

----------------------------------------------------------------------------
(* Specification of two searches: samples, and a list sub of frames taken *)
(* from samples in any order                                              *)

InitPair ==
    /\ pc = "pair"
    /\ samples \in ListsOver(PairFrames, MaxPair)
    /\ sub \in SubLists(samples)
    /\ cands = <<>>
    /\ err = "none"
    /\ rc = -1
    /\ subCands = <<>>
    /\ subErr = "none"
    /\ IrIdle
    /\ SecondIdle /\ SendIdle

\* cands = checksum_candidates(samples)
CallFull ==
    /\ pc = "pair"
    /\ LET r == checksum_candidates(samples)
       IN  /\ err' = r.raised
           /\ cands' = r.value
    /\ pc' = "second"
    /\ UNCHANGED <<samples, rc, sub, subCands, subErr, irVars>>
    /\ UNCHANGED <<secondVars, sendVars>>

\* subCands = checksum_candidates(sub)
CallSub ==
    /\ pc = "second"
    /\ LET r == checksum_candidates(sub)
       IN  /\ subErr' = r.raised
           /\ subCands' = r.value
    /\ pc' = "done"
    /\ UNCHANGED <<samples, rc, sub, cands, err, irVars>>
    /\ UNCHANGED <<secondVars, sendVars>>

NextPair == CallFull \/ CallSub

SpecPair == InitPair /\ [][NextPair]_vars

----------------------------------------------------------------------------
(* analyze_ir_dump.py / checksum_search.py: estimate_unit_us *)

Abs(x) == IF x < 0 THEN -x ELSE x

\* [abs(v) for v in xs]
AbsAll(xs) == [j \in 1 .. Len(xs) |-> Abs(xs[j])]

\* the upper limit of a "small" duration, in microseconds
SmallLimit == 800

\* the unit returned when the capture has no nonzero duration (425.0)
DefaultUnit == 425

\* mutant of SmallOf: the limit itself counts as small
SmallOfInclusive(xs) ==
    AbsAll(SelectSeq(xs, LAMBDA v : Abs(v) > 0 /\ Abs(v) <= SmallLimit))

\* small = [abs(v) for v in data if abs(v) > 0 and abs(v) < 800]
SmallOf(xs) ==
    AbsAll(SelectSeq(xs, LAMBDA v : Abs(v) > 0 /\ Abs(v) < SmallLimit))

\* [abs(v) for v in data if abs(v) > 0]
NonZeroOf(xs) == AbsAll(SelectSeq(xs, LAMBDA v : Abs(v) > 0))

\* sorted(xs), by insertion
RECURSIVE InsertSorted(_, _)
InsertSorted(x, d) ==
    IF d = <<>> THEN <<x>>
    ELSE IF x <= Head(d) THEN <<x>> \o d
    ELSE <<Head(d)>> \o InsertSorted(x, Tail(d))

RECURSIVE Sorted(_)
Sorted(xs) ==
    IF xs = <<>> THEN <<>> ELSE InsertSorted(Head(xs), Sorted(Tail(xs)))

\* twice statistics.median(xs) for a non-empty xs: the middle element of the
\* sorted data, or the mean of the two middle elements
Median2(xs) ==
    LET d == Sorted(xs)
        n == Len(d)
        i == n \div 2
    IN  IF n % 2 = 1 THEN 2 * d[i + 1] ELSE d[i] + d[i + 1]

\* twice estimate_unit_us(data)
estimate_unit_us(xs) ==
    LET small == IF SmallOf(xs) # <<>> THEN SmallOf(xs) ELSE NonZeroOf(xs)
    IN  IF small = <<>> THEN 2 * DefaultUnit ELSE Median2(small)

----------------------------------------------------------------------------
(* analyze_ir_dump.py / checksum_search.py: decode_bits_aeha *)

\* arr = [abs(x) for x in data if x != 0]
ArrOf(xs) == AbsAll(SelectSeq(xs, LAMBDA x : x # 0))

\* near(x, mult * unit_us, 0.6): abs(x - target) <= 0.6 * target, with
\* target = mult * unit2 / 2, both sides multiplied by 10
near(x, mult, u2) == 5 * Abs(2 * x - mult * u2) <= 3 * mult * u2

\* mutant of StartOf: a capture without a leader is decoded from its start
StartOfGated(arr, u2) ==
    IF Len(arr) >= 2
    THEN IF near(arr[1], 8, u2) /\ near(arr[2], 4, u2) THEN 2 ELSE 0
    ELSE 0

\* start: both branches of the leader test set 2
StartOf(arr, u2) ==
    IF Len(arr) >= 2
    THEN IF near(arr[1], 8, u2) /\ near(arr[2], 4, u2) THEN 2 ELSE 2
    ELSE 0

\* a / unit_us as the fraction num / den; a zero divisor raises
Divide(a, u2) ==
    IF u2 = 0
    THEN [raised |-> TRUE, num |-> 0, den |-> 1]
    ELSE [raised |-> FALSE, num |-> 2 * a, den |-> u2]

\* mutant of r_space: the division is not guarded
RSpaceUnguarded(space, u2) == Divide(space, u2)

\* r_space = space / unit_us if unit_us > 0 else 0
r_space(space, u2) ==
    IF u2 > 0 THEN Divide(space, u2)
    ELSE [raised |-> FALSE, num |-> 0, den |-> 1]

\* mutant of bit_of: a tie counts as 1
BitOfTieOne(r) ==
    IF Abs(r.num - 3 * r.den) <= Abs(r.num - r.den) THEN "1" ELSE "0"

\* bit = '1' if abs(r_space - 3.0) < abs(r_space - 1.0) else '0', both sides
\* multiplied by abs(den)
bit_of(r) ==
    IF Abs(r.num - 3 * r.den) < Abs(r.num - r.den) THEN "1" ELSE "0"

\* the while loop from position i (a Python index) with bits acc
RECURSIVE DecodeFrom(_, _, _, _)
DecodeFrom(arr, u2, i, acc) ==
    IF i + 1 < Len(arr)
    THEN LET r == r_space(At(arr, i + 1), u2)
         IN  IF r.raised
             THEN [raised |-> "ZeroDivisionError", value |-> <<>>]
             ELSE DecodeFrom(arr, u2, i + 2, Append(acc, bit_of(r)))
    ELSE [raised |-> "none", value |-> acc]

\* decode_bits_aeha(data, unit_us): the bit string, or the exception raised
decode_bits_aeha(xs, u2) ==
    LET arr == ArrOf(xs)
    IN  IF Len(arr) < 4
        THEN [raised |-> "none", value |-> <<>>]
        ELSE DecodeFrom(arr, u2, StartOf(arr, u2), <<>>)

----------------------------------------------------------------------------
(* analyze_ir_dump.py / checksum_search.py: bits_to_bytes_lsb_first *)

\* mutant of SegValue: the first bit of the chunk is the most significant
SegValueMsbFirst(seg) ==
    LET w(j) == IF seg[j + 1] = "1" THEN 2 ^ (7 - j) ELSE 0
    IN  w(0) + w(1) + w(2) + w(3) + w(4) + w(5) + w(6) + w(7)

\* val: val |= (1 << bit_index) for every '1' of the 8-character chunk
SegValue(seg) ==
    LET w(j) == IF seg[j + 1] = "1" THEN 2 ^ j ELSE 0
    IN  w(0) + w(1) + w(2) + w(3) + w(4) + w(5) + w(6) + w(7)

\* mutant of Slice8: a short final chunk is padded with "0" to 8 characters
Slice8Padded(bs, i) ==
    LET seg == SubSeq(bs, i + 1, IF i + 8 <= Len(bs) THEN i + 8 ELSE Len(bs))
    IN  seg \o [j \in 1 .. 8 - Len(seg) |-> "0"]

\* bits[i:i+8]
Slice8(bs, i) ==
    SubSeq(bs, i + 1, IF i + 8 <= Len(bs) THEN i + 8 ELSE Len(bs))

\* the for loop from i (a Python index, a multiple of 8) with bytes out
RECURSIVE PackFrom(_, _, _)
PackFrom(bs, i, out) ==
    IF i < Len(bs)
    THEN IF Len(Slice8(bs, i)) < 8
         THEN out
         ELSE PackFrom(bs, i + 8, Append(out, SegValue(Slice8(bs, i))))
    ELSE out

bits_to_bytes_lsb_first(bs) == PackFrom(bs, 0, <<>>)

----------------------------------------------------------------------------
(* analyze_ir_dump.py: hamming_distance *)

\* mutant of hamming_distance: the length difference is not made absolute
HammingSigned(a, b) ==
    LET n == IF Len(a) < Len(b) THEN Len(a) ELSE Len(b)
    IN  Cardinality({i \in 1 .. n : a[i] # b[i]}) + (Len(a) - Len(b))

\* sum(1 for i in range(n) if a[i] != b[i]) + abs(len(a) - len(b))
hamming_distance(a, b) ==
    LET n == IF Len(a) < Len(b) THEN Len(a) ELSE Len(b)
    IN  Cardinality({i \in 1 .. n : a[i] # b[i]}) + Abs(Len(a) - Len(b))

----------------------------------------------------------------------------
(* Inputs of the decoding functions *)

\* longest capture drawn for estimate_unit_us
MaxData == 5

\* longest capture drawn for decode_bits_aeha
MaxDecode == 7

\* longest bit string drawn for bits_to_bytes_lsb_first
MaxBits == 16

\* longest bit string drawn for hamming_distance
MaxHam == 5

\* durations around the 800 us limit, of both signs, and zero
EstimateDurations == {0, 425, -426, 799, 800, -1275}

\* durations of 1T, 2T and 3T for T = 425, of both signs, and zero
DecodeDurations == {0, -425, 850, 1275}

\* doubled units: negative, zero, 424.5 and 425
DecodeUnits2 == {-850, 0, 849, 850}

BitStrings(n) == ListsOver({"0", "1"}, n)

----------------------------------------------------------------------------
(* Specification of estimate_unit_us: one call per drawn capture *)

InitEstimate ==
    /\ pc = "estimate"
    /\ data \in ListsOver(EstimateDurations, MaxData)
    /\ unit2 = 0 /\ bits = <<>> /\ bytesOut = <<>>
    /\ DistanceIdle
    /\ SearchIdle
    /\ SecondIdle /\ SendIdle

\* unit = estimate_unit_us(data)
Estimate ==
    /\ pc = "estimate"
    /\ unit2' = estimate_unit_us(data)
    /\ pc' = "estimated"
    /\ UNCHANGED <<searchVars, data, bits, bytesOut, ha, hb, dist, distRev>>
    /\ UNCHANGED <<secondVars, sendVars>>

NextEstimate == Estimate

SpecEstimate == InitEstimate /\ [][NextEstimate]_vars

----------------------------------------------------------------------------
(* Specification of decode_bits_aeha followed by bits_to_bytes_lsb_first: *)
(* one run per drawn capture and unit                                     *)

InitDecode ==
    /\ pc = "decode"
    /\ data \in ListsOver(DecodeDurations, MaxDecode)
    /\ unit2 \in DecodeUnits2
    /\ bits = <<>> /\ bytesOut = <<>>
    /\ DistanceIdle
    /\ SearchIdle
    /\ SecondIdle /\ SendIdle

\* bits = decode_bits_aeha(data, unit)
Decode ==
    /\ pc = "decode"
    /\ LET r == decode_bits_aeha(data, unit2)
       IN  /\ err' = r.raised
           /\ bits' = r.value
           /\ pc' = IF r.raised = "none" THEN "decoded" ELSE "raised"
    /\ UNCHANGED <<samples, cands, rc, sub, subCands, subErr>>
    /\ UNCHANGED <<data, unit2, bytesOut, ha, hb, dist, distRev>>
    /\ UNCHANGED <<secondVars, sendVars>>

\* bytes = bits_to_bytes_lsb_first(bits)
Pack ==
    /\ pc = "decoded"
    /\ bytesOut' = bits_to_bytes_lsb_first(bits)
    /\ pc' = "packed"
    /\ UNCHANGED <<searchVars, data, unit2, bits, ha, hb, dist, distRev>>
    /\ UNCHANGED <<secondVars, sendVars>>

NextDecode == Decode \/ Pack

SpecDecode == InitDecode /\ [][NextDecode]_vars

----------------------------------------------------------------------------
(* Specification of bits_to_bytes_lsb_first: one call per drawn bit string, *)
(* then one call on the same string without its final short chunk          *)

InitPack ==
    /\ pc = "decoded"
    /\ bits \in BitStrings(MaxBits)
    /\ data = <<>> /\ unit2 = 0 /\ bytesOut = <<>>
    /\ DistanceIdle
    /\ SearchIdle
    /\ SecondIdle /\ SendIdle

\* the bits of bs before its final chunk of 1 to 7 bits: bs is this prefix,
\* whose length is a multiple of 8, with fewer than 8 bits appended
Whole(bs) == SubSeq(bs, 1, 8 * (Len(bs) \div 8))

\* a second call, on bits without the appended final chunk
PackBase ==
    /\ pc = "packed"
    /\ bytesBase' = bits_to_bytes_lsb_first(Whole(bits))
    /\ pc' = "based"
    /\ UNCHANGED <<searchVars, irVars, data2, bits2, txBytes, sendVars>>

NextPack == Pack \/ PackBase

SpecPack == InitPack /\ [][NextPack]_vars

----------------------------------------------------------------------------
(* Specification of decode_bits_aeha on two captures that differ only in   *)
(* their first two entries and their marks: one call per capture           *)

MaxLeader == 5

\* 1T, 3T and 4T at T = 425; 1700 then 1275 or 1700 pass the leader test
LeaderDurations == {-425, 1275, 1700}

LeaderUnits2 == {0, 850}

\* the lists a and b have the same length and the same entries at the
\* Python indices 3, 5, 7, ...
SameSpaces(a, b) ==
    /\ Len(a) = Len(b)
    /\ \A j \in 4 .. Len(a) : j % 2 = 0 => a[j] = b[j]

InitLeader ==
    /\ pc = "leader"
    /\ data \in ListsOver(LeaderDurations, MaxLeader)
    /\ data2 \in ListsOver(LeaderDurations, MaxLeader)
    /\ SameSpaces(ArrOf(data), ArrOf(data2))
    /\ unit2 \in LeaderUnits2
    /\ bits = <<>> /\ bits2 = <<>> /\ bytesOut = <<>>
    /\ bytesBase = <<>> /\ txBytes = <<>>
    /\ DistanceIdle
    /\ SearchIdle
    /\ SendIdle

\* bits = decode_bits_aeha(data, unit)
DecodeFirst ==
    /\ pc = "leader"
    /\ LET r == decode_bits_aeha(data, unit2)
       IN  /\ err' = r.raised
           /\ bits' = r.value
           /\ pc' = IF r.raised = "none" THEN "first" ELSE "raised"
    /\ UNCHANGED <<samples, cands, rc, sub, subCands, subErr>>
    /\ UNCHANGED <<data, unit2, bytesOut, ha, hb, dist, distRev>>
    /\ UNCHANGED <<secondVars, sendVars>>

\* bits2 = decode_bits_aeha(data2, unit)
DecodeSecond ==
    /\ pc = "first"
    /\ LET r == decode_bits_aeha(data2, unit2)
       IN  /\ err' = r.raised
           /\ bits2' = r.value
           /\ pc' = IF r.raised = "none" THEN "both" ELSE "raised"
    /\ UNCHANGED <<samples, cands, rc, sub, subCands, subErr>>
    /\ UNCHANGED <<irVars, bytesBase, data2, txBytes, sendVars>>

NextLeader == DecodeFirst \/ DecodeSecond

SpecLeader == InitLeader /\ [][NextLeader]_vars

----------------------------------------------------------------------------
(* send_bruteforce_cmd.py: encode_aeha_bytes_to_us *)

MinUnit == 50

\* max(50.0, unit_us), doubled
ClampUnit2(u2) == IF u2 > 2 * MinUnit THEN u2 ELSE 2 * MinUnit

\* int(round(x)) for the float x = d / 2 >= 0: Python rounds a half to the
\* even neighbour
RoundHalf(d) ==
    IF d % 2 = 0
    THEN d \div 2
    ELSE LET f == (d - 1) \div 2
         IN  IF f % 2 = 0 THEN f ELSE f + 1

\* mutant of TxBit: the bits of a byte are sent most-significant first
TxBitMsbFirst(b, i) == (b \div (2 ^ (7 - i))) % 2

\* bit = (b >> i) & 1
TxBit(b, i) == (b \div (2 ^ i)) % 2

\* space = 3 * T if bit == 1 else 1 * T, doubled
SpaceOf2(bit, T2) == IF bit = 1 THEN 3 * T2 ELSE T2

\* the inner loop for i in range(8) from i, appending a mark and a space
RECURSIVE EncodeByte(_, _, _, _)
EncodeByte(b, T2, i, seq) ==
    IF i < 8
    THEN EncodeByte(b, T2, i + 1,
             seq \o <<RoundHalf(T2), RoundHalf(SpaceOf2(TxBit(b, i), T2))>>)
    ELSE seq

\* the outer loop for b in data_bytes from Python index k
RECURSIVE EncodeFrom(_, _, _, _)
EncodeFrom(bs, T2, k, seq) ==
    IF k < Len(bs)
    THEN EncodeFrom(bs, T2, k + 1, EncodeByte(At(bs, k), T2, 0, seq))
    ELSE seq

\* encode_aeha_bytes_to_us(data_bytes, unit_us): leader 8T, 4T, the bits,
\* a trailing mark 1T
encode_aeha_bytes_to_us(bs, u2) ==
    LET T2 == ClampUnit2(u2)
        leader == <<RoundHalf(8 * T2), RoundHalf(4 * T2)>>
    IN  Append(EncodeFrom(bs, T2, 0, leader), RoundHalf(T2))

----------------------------------------------------------------------------
(* Specification of the round trip: encode_aeha_bytes_to_us, then          *)
(* decode_bits_aeha and bits_to_bytes_lsb_first at the same unit           *)

MaxTx == 2

\* byte values, 35 and 137 not symmetric, and 256, which is not a byte
TxByteValues == {0, 1, 2, 35, 128, 137, 255, 256}

\* the units 10, 50, 425 and 425.5
TxUnits2 == {20, 100, 850, 851}

InitRoundTrip ==
    /\ pc = "encode"
    /\ txBytes \in ListsOver(TxByteValues, MaxTx)
    /\ unit2 \in TxUnits2
    /\ data = <<>> /\ bits = <<>> /\ bytesOut = <<>>
    /\ bytesBase = <<>> /\ data2 = <<>> /\ bits2 = <<>>
    /\ DistanceIdle
    /\ SearchIdle
    /\ SendIdle

\* us = encode_aeha_bytes_to_us(txBytes, unit), handed to the decoder
Encode ==
    /\ pc = "encode"
    /\ data' = encode_aeha_bytes_to_us(txBytes, unit2)
    /\ pc' = "decode"
    /\ UNCHANGED <<searchVars, unit2, bits, bytesOut, ha, hb, dist, distRev>>
    /\ UNCHANGED <<secondVars, sendVars>>

NextRoundTrip == Encode \/ Decode \/ Pack

SpecRoundTrip == InitRoundTrip /\ [][NextRoundTrip]_vars

----------------------------------------------------------------------------
(* send_bruteforce_cmd.py: main, post_local_message *)

Cmd == 2

LastXX == 255

\* max(0, args.start)
LoopFirst(a) == IF a.start > 0 THEN a.start ELSE 0

\* min(255, args.end)
LoopLast(a) == IF a.end < LastXX THEN a.end ELSE LastXX

\* how post_local_message ends: a status below 400, another status, or a
\* requests.exceptions.RequestException (requests.post has a timeout)
PostOutcomes == {"ok", "status", "RequestException"}

\* time.sleep(secs) raises ValueError for a negative secs
SleepRaises(secs) == secs < 0

----------------------------------------------------------------------------
(* Specification of the brute-force send: main of send_bruteforce_cmd.py   *)

\* --start and --end: any ints; below 0, inside and above 255
SendStarts == {-1, 0, 253, 256}
SendEnds == {-1, 1, 255, 256}

\* --sleep: any float; the default is 2.0
SendSleeps == {-1, 0, 2}

\* the unit estimated from the sample file: the default 355.0, or 425.0
SendUnits2 == {710, 850}

InitSend ==
    /\ pc = "send"
    /\ args \in [ip : BOOLEAN, start : SendStarts, end : SendEnds,
                  sleep : SendSleeps]
    /\ xx = -1 /\ posts = <<>> /\ last = "none" /\ payload = <<>>
    /\ SecondIdle
    /\ IrIdle
    /\ SearchIdle

\* main up to the loop: without an IP it returns 2; else it estimates the
\* unit from the sample file and enters the loop
SendStart ==
    /\ pc = "send"
    /\ IF ~args.ip
       THEN /\ rc' = 2
            /\ pc' = "exit"
            /\ UNCHANGED <<unit2, xx>>
       ELSE /\ unit2' \in SendUnits2
            /\ xx' = LoopFirst(args)
            /\ pc' = "loop"
            /\ rc' = rc
    /\ UNCHANGED <<samples, cands, err, sub, subCands, subErr>>
    /\ UNCHANGED <<data, bits, bytesOut, ha, hb, dist, distRev>>
    /\ UNCHANGED <<secondVars, args, posts, last, payload>>

\* one pass of the loop body for xx: encode the frame, POST it, print the
\* outcome and sleep; an exception of time.sleep is not caught
Attempt ==
    /\ pc = "loop"
    /\ xx <= LoopLast(args)
    /\ LET bytes8 == Header \o <<Cmd, xx>>
       IN  /\ payload' = encode_aeha_bytes_to_us(bytes8, unit2)
           /\ posts' = Append(posts, bytes8)
    /\ last' \in PostOutcomes
    /\ IF SleepRaises(args.sleep)
       THEN /\ err' = "ValueError"
            /\ pc' = "raised"
            /\ xx' = xx
       ELSE /\ err' = err
            /\ pc' = "loop"
            /\ xx' = xx + 1
    /\ UNCHANGED <<samples, cands, rc, sub, subCands, subErr>>
    /\ UNCHANGED <<irVars, secondVars, args>>

\* the range is exhausted: print("Done."), return 0
Done ==
    /\ pc = "loop"
    /\ xx > LoopLast(args)
    /\ rc' = 0
    /\ pc' = "exit"
    /\ UNCHANGED <<samples, cands, err, sub, subCands, subErr>>
    /\ UNCHANGED <<irVars, secondVars, sendVars>>

NextSend == SendStart \/ Attempt \/ Done

SpecSend == InitSend /\ [][NextSend]_vars

----------------------------------------------------------------------------
(* Specification of hamming_distance: both orders of each drawn pair *)

InitHamming ==
    /\ pc = "measure"
    /\ ha \in BitStrings(MaxHam)
    /\ hb \in BitStrings(MaxHam)
    /\ dist = -1 /\ distRev = -1
    /\ data = <<>> /\ unit2 = 0 /\ bits = <<>> /\ bytesOut = <<>>
    /\ SearchIdle
    /\ SecondIdle /\ SendIdle

\* hamming_distance(ha, hb)
Measure ==
    /\ pc = "measure"
    /\ dist' = hamming_distance(ha, hb)
    /\ pc' = "second"
    /\ UNCHANGED <<searchVars, data, unit2, bits, bytesOut, ha, hb, distRev>>
    /\ UNCHANGED <<secondVars, sendVars>>

\* hamming_distance(hb, ha)
MeasureRev ==
    /\ pc = "second"
    /\ distRev' = hamming_distance(hb, ha)
    /\ pc' = "done"
    /\ UNCHANGED <<searchVars, data, unit2, bits, bytesOut, ha, hb, dist>>
    /\ UNCHANGED <<secondVars, sendVars>>

NextHamming == Measure \/ MeasureRev

SpecHamming == InitHamming /\ [][NextHamming]_vars

----------------------------------------------------------------------------
(* All tools together: a run starts one of them on one of its inputs *)

Init ==
    InitSearch \/ InitPair \/ InitEstimate \/ InitDecode \/ InitPack
    \/ InitHamming \/ InitLeader \/ InitRoundTrip \/ InitSend

Next ==
    NextSearch \/ NextPair \/ NextEstimate \/ NextDecode \/ NextPack
    \/ NextHamming \/ NextLeader \/ NextRoundTrip \/ NextSend

Spec == Init /\ [][Next]_vars

----------------------------------------------------------------------------
(* What the claims say a valid formula is, stated over index sets and     *)
(* without the code's closures                                            *)

IndexSets == (SUBSET (0 .. 6)) \ {{}}

FixedFamilies == {"sum", "neg_sum", "ones_sum", "xor", "nxor"}

\* the ascending list of an index set, as the result names it
Listed(S) == SelectSeq(idxs, LAMBDA i : i \in S)

In(S, i) == IF i \in S THEN 1 ELSE 0

\* the sum of the bytes of b at the positions in S
SetSum(S, b) ==
    In(S, 0) * b[1] + In(S, 1) * b[2] + In(S, 2) * b[3] + In(S, 3) * b[4]
    + In(S, 4) * b[5] + In(S, 5) * b[6] + In(S, 6) * b[7]

\* bit j of the xor of the bytes of b at the positions in S: their parity
XorBit(S, b, j) ==
    (In(S, 0) * BitAt(b[1], j) + In(S, 1) * BitAt(b[2], j)
     + In(S, 2) * BitAt(b[3], j) + In(S, 3) * BitAt(b[4], j)
     + In(S, 4) * BitAt(b[5], j) + In(S, 5) * BitAt(b[6], j)
     + In(S, 6) * BitAt(b[7], j)) % 2

SetXor(S, b) ==
    XorBit(S, b, 0) + 2 * XorBit(S, b, 1) + 4 * XorBit(S, b, 2)
    + 8 * XorBit(S, b, 3) + 16 * XorBit(S, b, 4) + 32 * XorBit(S, b, 5)
    + 64 * XorBit(S, b, 6) + 128 * XorBit(S, b, 7)

\* the byte a fixed family predicts for frame b
Predicted(fam, S, b) ==
    CASE fam = "sum"      -> SetSum(S, b) % 256
      [] fam = "neg_sum"  -> (256 - (SetSum(S, b) % 256)) % 256
      [] fam = "ones_sum" -> 255 - (SetSum(S, b) % 256)
      [] fam = "xor"      -> SetXor(S, b)
      [] fam = "nxor"     -> 255 - SetXor(S, b)

\* the byte the linear formula (S, k, c) predicts for frame b
PredictedLin(S, k, c, b) == (SetSum(S, b) + k * b[7] + c) % 256

\* the constant that makes the linear formula (S, k) exact on frame b0
FittedC(S, k, b0) == (b0[8] + 256 * 20 - SetSum(S, b0) - k * b0[7]) % 256

FixedValid(fam, S, ss) ==
    \A n \in 1 .. Len(ss) : Predicted(fam, S, ss[n]) = ss[n][8]

LinValid(S, k, c, ss) ==
    \A n \in 1 .. Len(ss) : PredictedLin(S, k, c, ss[n]) = ss[n][8]

\* C1: for a non-empty sample list the result holds the formula of a fixed
\* family and index set exactly when it predicts byte 7 of every sample,
\* holds the linear formula of (S, k), with c fitted to the first sample,
\* exactly when that predicts byte 7 of every sample, and holds nothing else.
C1_ExactlyTheValid ==
    (pc = "returned" /\ samples # <<>>) =>
        LET R == Range(cands)
        IN  /\ \A S \in IndexSets : \A fam \in FixedFamilies :
                  (Formula(fam, Listed(S), 0, 0) \in R)
                      <=> FixedValid(fam, S, samples)
            /\ \A S \in IndexSets : \A k \in 0 .. 15 :
                  LET c == FittedC(S, k, samples[1])
                  IN  (Formula("lin", Listed(S), k, c) \in R)
                          <=> LinValid(S, k, c, samples)
            /\ \A f \in R :
                  /\ f.S \in Range(subsets)
                  /\ IF f.fam = "lin"
                     THEN /\ f.k \in 0 .. 15
                          /\ f.c = FittedC(Range(f.S), f.k, samples[1])
                     ELSE f.fam \in FixedFamilies /\ f.k = 0 /\ f.c = 0

\* C1 witness: two samples that some fixed formula and some linear formula
\* fit and that other formulas of both kinds do not
C1_Witness ==
    /\ pc = "returned"
    /\ Len(samples) = 2
    /\ samples[1] # samples[2]
    /\ \E f \in Range(cands) : f.fam = "lin"
    /\ \E f \in Range(cands) : f.fam # "lin"
    /\ Len(cands) < 20

\* C2 (as claimed): a search of an empty sample list ends with the distinct
\* empty-input error EmptyInputError and never with a returned list.
C2_EmptyInputError ==
    (samples = <<>> /\ pc \in {"returned", "raised"}) =>
        (pc = "raised" /\ err = "EmptyInputError")

LinMatches == { f \in Range(cands) : f.fam = "lin" }

\* C4 (as claimed): a single-sample search returns 16 linear matches, one
\* per coefficient k in 0..15, whose derived constants c all differ; in its
\* weakest reading this needs a match for every k and at least 16 different
\* constants among the linear matches.
C4_DifferentConstants ==
    (pc = "returned" /\ Len(samples) = 1) =>
        LET L == LinMatches
        IN  /\ \A k \in 0 .. 15 : \E f \in L : f.k = k
            /\ Cardinality({ f.c : f \in L }) >= 16

\* C4 (amended): a single-sample search returns the linear formula of every
\* index set and every coefficient k in 0..15 (2032 matches, so at least 16
\* distinct ones, one per k), each with the constant fitted to the sample;
\* the constants of different coefficients need not differ.
C4_AllLinearMatch ==
    (pc = "returned" /\ Len(samples) = 1) =>
        LET L == LinMatches
        IN  /\ \A S \in IndexSets : \A k \in 0 .. 15 :
                  Formula("lin", Listed(S), k, FittedC(S, k, samples[1])) \in L
            /\ Cardinality(L) = 16 * 127
            /\ \A k \in 0 .. 15 : Cardinality({ f \in L : f.k = k }) = 127

\* C4 witness: a single sample with byte 6 = 0, all of whose linear matches
\* carry one and the same constant
C4_Witness ==
    /\ pc = "returned"
    /\ Len(samples) = 1
    /\ samples[1][7] = 0
    /\ Cardinality(LinMatches) = 16 * 127
    /\ Cardinality({ f.c : f \in LinMatches }) = 1

\* the frame's byte 7 is the xor of its bytes 0-6
XorHolds(b) == b[8] = SetXor(0 .. 6, b)

XorOfAll == Formula("xor", idxs, 0, 0)

\* C3: when sub is a non-empty list of frames taken from samples, every
\* formula returned for samples is returned for sub, the linear formulas
\* (whose constant is fitted to the first sample of each list) included.
C3_Monotone ==
    (pc = "done" /\ sub # <<>>) =>
        /\ err = "none" /\ subErr = "none"
        /\ Range(cands) \subseteq Range(subCands)

\* C3 witness: the two lists start with different samples, the larger one
\* still has linear matches, and the smaller one has strictly more matches
C3_Witness ==
    /\ pc = "done"
    /\ sub # <<>>
    /\ sub[1] # samples[1]
    /\ \E f \in Range(cands) : f.fam = "lin"
    /\ Range(cands) # Range(subCands)

\* C5: a non-empty sample list whose frames all have byte 7 = xor(bytes 0-6)
\* yields the xor formula over {0,..,6}; a list holding a frame that breaks
\* the relation does not.
C5_XorOfAll ==
    (pc = "done") =>
        /\ samples # <<>> =>
              ((XorOfAll \in Range(cands))
                  <=> \A n \in 1 .. Len(samples) : XorHolds(samples[n]))
        /\ sub # <<>> =>
              ((XorOfAll \in Range(subCands))
                  <=> \A n \in 1 .. Len(sub) : XorHolds(sub[n]))

\* C5 witness: sub satisfies the relation and has the formula; samples is
\* sub plus one frame that breaks the relation and has lost the formula
C5_Witness ==
    /\ pc = "done"
    /\ Len(sub) >= 1
    /\ Len(samples) = Len(sub) + 1
    /\ \A n \in 1 .. Len(sub) : XorHolds(sub[n])
    /\ Cardinality({n \in 1 .. Len(samples) : ~XorHolds(samples[n])}) = 1
    /\ XorOfAll \in Range(subCands)
    /\ XorOfAll \notin Range(cands)

----------------------------------------------------------------------------
(* The decoding claims, stated over the positions of the capture *)

\* the positions of the nonzero durations of capture xs
NonZeroIdx(xs) == { i \in 1 .. Len(xs) : xs[i] # 0 }

\* the number of absolute nonzero durations: len(arr)
ArrLen(xs) == Cardinality(NonZeroIdx(xs))

\* arr[m] (m a Python index): the magnitude of the (m+1)-th nonzero duration
ArrEntry(xs, m) ==
    LET i == CHOOSE i \in NonZeroIdx(xs) :
                 Cardinality({j \in NonZeroIdx(xs) : j < i}) = m
    IN  IF xs[i] < 0 THEN -xs[i] ELSE xs[i]

\* space / T is strictly closer to 3.0 than to 1.0, i.e. above 2.0, for the
\* unit T = u2 / 2 > 0
CloserToThree(space, u2) == 2 * space > 2 * u2

\* C6: with at least 4 absolute nonzero durations and a unit T > 0 the
\* decoder returns floor((len(arr) - 2) / 2) bits; bit j is 1 exactly when
\* the space arr[3 + 2j] over T is strictly closer to 3.0 than to 1.0, so a
\* space of exactly 2T gives 0, and a trailing unpaired mark gives no bit.
C6_BitsBySpace ==
    (pc \in {"decoded", "packed"} /\ unit2 > 0 /\ ArrLen(data) >= 4) =>
        /\ Len(bits) = (ArrLen(data) - 2) \div 2
        /\ \A j \in 0 .. Len(bits) - 1 :
              LET space == ArrEntry(data, 3 + 2 * j)
              IN  /\ bits[j + 1] =
                        IF CloserToThree(space, unit2) THEN "1" ELSE "0"
                  /\ 2 * space = 2 * unit2 => bits[j + 1] = "0"

\* C6 witness: seven durations at T = 425 decode to "01": the first space is
\* exactly 2T, the second is 3T, and the seventh entry is an unpaired mark
C6_Witness ==
    /\ pc = "decoded"
    /\ unit2 = 850
    /\ ArrLen(data) = 7
    /\ ArrEntry(data, 3) = 850
    /\ ArrEntry(data, 5) = 1275
    /\ bits = <<"0", "1">>

\* C7: the decoder returns a bit string for every capture and every unit,
\* zero and negative units included, and never raises; with fewer than 4
\* nonzero durations the bit string is empty and packs to no byte.
C7_Total ==
    (pc \in {"decoded", "packed", "raised"}) =>
        /\ pc # "raised" /\ err = "none"
        /\ \A i \in 1 .. Len(bits) : bits[i] \in {"0", "1"}
        /\ ArrLen(data) < 4 => bits = <<>>
        /\ (ArrLen(data) < 4 /\ pc = "packed") => bytesOut = <<>>

\* C7 witness: a unit of zero and six durations, decoded to two bits
C7_Witness ==
    /\ pc = "decoded"
    /\ unit2 = 0
    /\ ArrLen(data) = 6
    /\ Len(bits) = 2

\* the 8-bit expansion of byte v, bit i of v at position i
LsbFirst(v) ==
    [i \in 1 .. 8 |-> IF (v \div (2 ^ (i - 1))) % 2 = 1 THEN "1" ELSE "0"]

\* C8: packing the LSB-first 8-bit expansion of a byte v in 0..255 returns
\* exactly [v]; the first bit of every packed chunk is the least-significant
\* bit of its byte.
C8_RoundTrip ==
    (pc = "packed") =>
        /\ Len(bits) = 8 =>
              \A v \in 0 .. 255 : bits = LsbFirst(v) => bytesOut = <<v>>
        /\ \A n \in 1 .. Len(bytesOut) :
              (bytesOut[n] % 2 = 1) <=> (bits[8 * (n - 1) + 1] = "1")

\* C8 witness: the expansion of 35 (0x23), "11000100", packed to [35]
C8_Witness ==
    /\ pc = "packed"
    /\ bits = <<"1", "1", "0", "0", "0", "1", "0", "0">>
    /\ bits = LsbFirst(35)
    /\ bytesOut = <<35>>

\* C9: the distance of (a, b) equals the distance of (b, a), and is zero
\* exactly when a = b, whatever the two lengths.
C9_SymmetricZero ==
    (pc = "done") =>
        /\ dist = distRev
        /\ (dist = 0) <=> (ha = hb)

\* C9 witness: strings of different lengths that also differ in their common
\* prefix
C9_Witness ==
    /\ pc = "done"
    /\ Len(ha) < Len(hb)
    /\ \E i \in 1 .. Len(ha) : ha[i] # hb[i]
    /\ dist = distRev
    /\ dist >= 2

\* twice the median of the magnitudes of xs at the positions I (non-empty),
\* by order statistics: the k-th smallest x has fewer than k magnitudes
\* below it and at least k not above it
MedianAt2(xs, I) ==
    LET mag(i) == IF xs[i] < 0 THEN -xs[i] ELSE xs[i]
        n == Cardinality(I)
        kth(k) == CHOOSE x \in { mag(i) : i \in I } :
                      /\ Cardinality({i \in I : mag(i) < x}) < k
                      /\ Cardinality({i \in I : mag(i) <= x}) >= k
    IN  IF n % 2 = 1 THEN 2 * kth((n + 1) \div 2)
        ELSE kth(n \div 2) + kth((n \div 2) + 1)

\* the positions of the magnitudes strictly between 0 and 800
SmallIdx(xs) ==
    { i \in 1 .. Len(xs) : xs[i] # 0 /\ xs[i] < 800 /\ xs[i] > -800 }

\* C10: the unit is the median of the magnitudes strictly between 0 and 800
\* when there is one (the mean of the two middle ones for an even count),
\* otherwise the median of all nonzero magnitudes, otherwise the default;
\* it is strictly positive in every case.
C10_MedianUnit ==
    (pc = "estimated") =>
        /\ unit2 =
              IF SmallIdx(data) # {} THEN MedianAt2(data, SmallIdx(data))
              ELSE IF NonZeroIdx(data) # {}
                   THEN MedianAt2(data, NonZeroIdx(data))
                   ELSE 2 * DefaultUnit
        /\ unit2 > 0

\* C10 witness: two small magnitudes 425 and 426, whose mean 425.5 is the
\* unit, beside larger durations that are left out
C10_Witness ==
    /\ pc = "estimated"
    /\ Cardinality(SmallIdx(data)) = 2
    /\ \E i \in 1 .. Len(data) : data[i] = 800
    /\ \E i \in 1 .. Len(data) : data[i] = -1275
    /\ unit2 = 851

----------------------------------------------------------------------------
(* C11 *)

\* C11: a bit string of length n packs to exactly floor(n / 8) bytes, each
\* in 0..255; a final chunk of 1 to 7 bits is discarded, so the string packs
\* to the same bytes as the same string without that final chunk.
C11_WholeChunksOnly ==
    /\ (pc \in {"packed", "based"}) =>
          /\ Len(bytesOut) = Len(bits) \div 8
          /\ \A n \in 1 .. Len(bytesOut) : bytesOut[n] \in 0 .. 255
    /\ (pc = "based") =>
          /\ Len(Whole(bits)) % 8 = 0
          /\ Len(bits) - Len(Whole(bits)) \in 0 .. 7
          /\ bytesOut = bytesBase

\* C11 witness: 8 bits and 7 more packed to one byte, as the 8 bits alone
C11_Witness ==
    /\ pc = "based"
    /\ Len(bits) = 15
    /\ bits[9] = "1"
    /\ bytesOut = <<35>>
    /\ bytesBase = <<35>>

----------------------------------------------------------------------------
(* C12 *)

\* the Python indices of the space entries the decoder reads in a list of
\* n absolute nonzero durations: 3, 5, 7, ...
SpaceIdx(n) == { m \in 3 .. n - 1 : m % 2 = 1 }

\* C12: two captures whose lists of absolute nonzero durations have the
\* same length and the same entries at the indices 3, 5, 7, ... decode, with
\* the same unit, to the same bit string, whatever their first two entries
\* and their marks are; the first two entries are skipped whether or not
\* they pass the leader test, so there is one bit per space entry.
C12_LeaderAndMarksIgnored ==
    (/\ pc = "both"
     /\ ArrLen(data) = ArrLen(data2)
     /\ \A m \in SpaceIdx(ArrLen(data)) :
            ArrEntry(data, m) = ArrEntry(data2, m)) =>
        /\ bits2 = bits
        /\ Len(bits) = Cardinality(SpaceIdx(ArrLen(data)))

\* C12 witness: at T = 425 a capture that starts with 4T, 3T (passing the
\* leader test) and one that starts with 1T, 1T (failing it), with different
\* marks and the one space 3T, both decode to "1"
C12_Witness ==
    /\ pc = "both"
    /\ unit2 = 850
    /\ data = <<1700, 1275, -425, 1275, -425>>
    /\ data2 = <<-425, -425, 1700, 1275, 1275>>
    /\ bits = <<"1">>
    /\ bits2 = <<"1">>

----------------------------------------------------------------------------
(* C13 *)

\* C13: for every list of bytes in 0..255 and every integer unit T >= 50,
\* encoding the list at T, decoding the durations at T and packing the bits
\* returns the list: the leader is skipped and the trailing mark gives no
\* bit, so there are 8 bits per byte.
C13_EncodeDecode ==
    (/\ pc = "packed"
     /\ \A k \in 1 .. Len(txBytes) : txBytes[k] \in 0 .. 255
     /\ unit2 % 2 = 0
     /\ unit2 >= 100) =>
        /\ Len(data) = 2 + 16 * Len(txBytes) + 1
        /\ Len(bits) = 8 * Len(txBytes)
        /\ bytesOut = txBytes

\* C13 witness: [35, 137] sent at T = 425 is 35 durations, 16 bits and
\* comes back as [35, 137]
C13_Witness ==
    /\ pc = "packed"
    /\ unit2 = 850
    /\ txBytes = <<35, 137>>
    /\ Len(data) = 35
    /\ data[1] = 3400 /\ data[2] = 1700 /\ data[4] = 1275 /\ data[35] = 425
    /\ Len(bits) = 16
    /\ bytesOut = <<35, 137>>

----------------------------------------------------------------------------
(* C14 *)

\* the frames header + [0x02, XX] for XX from max(0, start) to upto, in
\* ascending order; none when upto is below max(0, start)
FramesTo(a, upto) ==
    LET lo == IF a.start < 0 THEN 0 ELSE a.start
    IN  [k \in 1 .. upto - lo + 1 |->
             <<35, 203, 22, 68, 128, 137, 2, lo + k - 1>>]

\* C14: once entered, the send loop attempts exactly one POST for every XX
\* from max(0, start) to min(255, end), in ascending order, each carrying
\* header + [0x02, XX]; nothing aborts the loop: whatever the outcome of a
\* POST, the loop can go on to the next value, and it ends after the last
\* one with return code 0.
C14_EveryValuePosted ==
    (args.ip /\ pc # "send") =>
        /\ pc \in {"loop", "exit"}
        /\ (pc = "loop") =>
              (posts = FramesTo(args, xx - 1) /\ ENABLED NextSend)
        /\ (pc = "exit") =>
              /\ rc = 0
              /\ posts = FramesTo(args, IF args.end > 255 THEN 255
                                        ELSE args.end)

====
